---- MODULE Spec2Model ----
(***************************************************************************)
(* A model of the rust-raycaster core: the map file parser (src/map.rs),   *)
(* the map's coordinate conversion, and the player's rotation, movement    *)
(* and raycast (src/player.rs).                                            *)
(*                                                                         *)
(* Text is modelled as a sequence of one-character strings, so that        *)
(* splitting, trimming, regex matching and number parsing are computed     *)
(* character by character as the code computes them.                       *)
(***************************************************************************)
EXTENDS Integers, Sequences, FiniteSets, TLC

VARIABLES
    arg,          \* the argument of a call to a pure function
    ret,          \* its result, NotCalled before the call
    file,         \* Map::parse: the lines of the map file
    cursor,       \* Map::parse: number of lines the Lines iterator has yielded
    line_number,  \* Map::parse: the `line` counter
    fields,       \* Map::parse: the header HashMap, a function from keys to values
    dims,         \* Map::parse: <<width, height>> once parse_size returned
    tiles,        \* parse_tiles: the tiles pushed so far
    pc,           \* Map::parse: the position in the function
    result,       \* Map::parse: the returned Result, NotCalled while running
    map,          \* the Map of the running game
    pos,          \* Player.pos, in world units
    angle,        \* Player.angle, in units of PI / 4
    last,         \* the last call made on the player, with its locals
    turn,         \* the rotation made so far: the starting angle and the sum of the deltas
    ray           \* Player::raycast: its locals and its position in the function

pureVars == <<arg, ret>>
parseVars == <<file, cursor, line_number, fields, dims, tiles, pc, result>>
playerVars == <<map, pos, angle, last, turn>>
notParseVars == <<pureVars, playerVars, ray>>
notPureVars == <<parseVars, playerVars, ray>>
notPlayerVars == <<pureVars, parseVars, ray>>
vars == <<arg, ret, file, cursor, line_number, fields, dims, tiles, pc, result,
          map, pos, angle, last, turn, ray>>

NotCalled == [called |-> FALSE]

(* The values of the variables a specification leaves alone *)
NoMap == [name |-> <<>>, width |-> 0, height |-> 0, tiles |-> <<>>,
          x |-> 0, y |-> 0, tile_size |-> 1]

IdlePlayer ==
    /\ map = NoMap /\ pos = [x |-> 0, y |-> 0] /\ angle = 0
    /\ last = [op |-> "new"] /\ turn = [start |-> 0, total |-> 0, signs |-> {}]

IdleRay == ray = [pc |-> "idle"]

IdlePure == arg = <<>> /\ ret = NotCalled

IdleParse ==
    /\ file = <<>> /\ cursor = 0 /\ line_number = 0 /\ fields = <<>>
    /\ dims = <<0, 0>> /\ tiles = <<>> /\ pc = "idle" /\ result = NotCalled

-----------------------------------------------------------------------------
(* Bounds of the model *)

\* longest `size` value given to parse_size
MaxSizeLen == 5
\* longest header line given to parse_field
MaxFieldLen == 5
\* most lines in the body of a map file
MaxBodyLines == 3
\* the tile size of the maps the player moves in, in world units
TileSize == 16
\* the distance of one move_forward or move_backward, in world units
MoveDistance == 4
\* how far below the map's origin the model follows a position
Margin == 12
\* how many full turns of accumulated rotation the model follows
MaxTurns == 1
\* how many times longer the long component of a cardinal direction is than
\* its short one, when f32 leaves the short one not exactly zero
Steep == 1000000
\* the widest and highest ring map a ray is cast in, in tiles
MaxRing == 5
\* the widest and highest map without walls a ray is cast in, in tiles
MaxOpen == 3

-----------------------------------------------------------------------------
(* Text helpers *)

Strings(alphabet, n) == UNION {[1..k -> alphabet] : k \in 0..n}

Digits == {"0", "1", "2", "3", "4", "5", "6", "7", "8", "9"}

IsDigit(c) == c \in Digits

DigitValue(c) ==
    CASE c = "0" -> 0 [] c = "1" -> 1 [] c = "2" -> 2 [] c = "3" -> 3
      [] c = "4" -> 4 [] c = "5" -> 5 [] c = "6" -> 6 [] c = "7" -> 7
      [] c = "8" -> 8 [] c = "9" -> 9

\* char::is_whitespace, restricted to the characters the model uses
IsWhitespace(c) == c \in {" ", "\t"}

RECURSIVE DecimalValue(_)
\* str::parse on a string of decimal digits: its base-10 value
DecimalValue(s) ==
    IF s = <<>> THEN 0
    ELSE 10 * DecimalValue(SubSeq(s, 1, Len(s) - 1)) + DigitValue(s[Len(s)])

\* the concatenation of a sequence of sequences
RECURSIVE Flatten(_)
Flatten(ss) == IF ss = <<>> THEN <<>> ELSE ss[1] \o Flatten(Tail(ss))

\* str::trim: the slice without leading and trailing whitespace
Trim(s) ==
    LET inked == {i \in 1..Len(s) : ~IsWhitespace(s[i])}
    IN  IF inked = {} THEN <<>>
        ELSE LET first == CHOOSE i \in inked : \A j \in inked : i <= j
                 final == CHOOSE i \in inked : \A j \in inked : j <= i
             IN  SubSeq(s, first, final)

\* ParseError::InvalidFormat(ParseErrorDetails { line, message })
InvalidFormat(line, message) ==
    [called |-> TRUE, ok |-> FALSE, kind |-> "InvalidFormat",
     line |-> line, message |-> message]

Ok(value) == [called |-> TRUE, ok |-> TRUE, value |-> value]

-----------------------------------------------------------------------------
(* parse_field *)

\* the key/value emptiness test of parse_field, made on the untrimmed slices
FieldPartsEmpty(key, value) == Len(key) = 0 \/ Len(value) = 0

parse_field(field, line) ==
    IF Len(field) < 3 THEN InvalidFormat(line, "Invalid field format")
    ELSE LET eqs == {i \in 1..Len(field) : field[i] = "="}
         IN  IF eqs = {} THEN InvalidFormat(line, "Invalid field format")
             ELSE LET at == CHOOSE i \in eqs : \A j \in eqs : i <= j
                      key == SubSeq(field, 1, at - 1)
                      value == SubSeq(field, at + 1, Len(field))
                  IN  IF FieldPartsEmpty(key, value)
                      THEN InvalidFormat(line, "Invalid field format")
                      ELSE Ok(<<Trim(key), Trim(value)>>)

-----------------------------------------------------------------------------
(* parse_size *)

\* the end of the longest run of digits of s that starts at i (i - 1 if none)
DigitRunEnd(s, i) ==
    LET stops == {j \in i..Len(s) : ~IsDigit(s[j])}
    IN  IF stops = {} THEN Len(s)
        ELSE (CHOOSE j \in stops : \A k \in stops : j <= k) - 1

\* Regex (\d+)x(\d+) matched at start i: greedy digits, 'x', greedy digits
SizeMatchesAt(s, i) ==
    LET e == DigitRunEnd(s, i)
    IN  /\ e >= i
        /\ e + 2 <= Len(s)
        /\ s[e + 1] = "x"
        /\ IsDigit(s[e + 2])

\* Regex::captures: the leftmost match anywhere in the haystack
SizeCaptures(s) ==
    LET starts == {i \in 1..Len(s) : SizeMatchesAt(s, i)}
    IN  IF starts = {} THEN [found |-> FALSE]
        ELSE LET i == CHOOSE a \in starts : \A b \in starts : a <= b
                 e == DigitRunEnd(s, i)
             IN  [found |-> TRUE,
                  g1 |-> SubSeq(s, i, e),
                  g2 |-> SubSeq(s, e + 2, DigitRunEnd(s, e + 2))]

parse_size(size, line) ==
    LET captures == SizeCaptures(size)
    IN  IF ~captures.found THEN InvalidFormat(line, "Invalid size format")
        ELSE Ok(<<DecimalValue(captures.g1), DecimalValue(captures.g2)>>)

-----------------------------------------------------------------------------
(* parse_tiles and Map::parse *)

RECURSIVE SplitWhitespace(_)
\* str::split_whitespace: the maximal runs of non-whitespace characters
SplitWhitespace(s) ==
    IF s = <<>> THEN <<>>
    ELSE IF IsWhitespace(s[1]) THEN SplitWhitespace(Tail(s))
    ELSE LET stops == {j \in 1..Len(s) : IsWhitespace(s[j])}
             e == IF stops = {} THEN Len(s)
                  ELSE (CHOOSE j \in stops : \A k \in stops : j <= k) - 1
         IN  <<SubSeq(s, 1, e)>> \o SplitWhitespace(SubSeq(s, e + 1, Len(s)))

\* str::parse::<u8>: an optional '+', then one or more digits, at most 255
ParseU8(tok) ==
    LET body == IF Len(tok) > 1 /\ tok[1] = "+" THEN Tail(tok) ELSE tok
    IN  IF body = <<>> \/ \E i \in 1..Len(body) : ~IsDigit(body[i])
        THEN [ok |-> FALSE]
        ELSE IF DecimalValue(body) > 255 THEN [ok |-> FALSE]
        ELSE [ok |-> TRUE, value |-> DecimalValue(body)]

\* a variant of TooManyTiles: the comparison is strict
TooManyTilesStrict(got, expected_len) == Len(got) > expected_len

\* the test made on every tile before it is pushed
TooManyTiles(got, expected_len) == Len(got) >= expected_len

RECURSIVE ParseTileTokens(_, _, _, _)
\* the inner loop of parse_tiles over the tokens of one line: the tiles
\* pushed, and the error that ended the loop (NotCalled if none did)
ParseTileTokens(toks, got, expected_len, line) ==
    IF toks = <<>> THEN [tiles |-> got, err |-> NotCalled]
    ELSE LET tile == ParseU8(toks[1])
         IN  IF ~tile.ok
             THEN [tiles |-> got, err |-> InvalidFormat(line, "Invalid tile format")]
             ELSE IF TooManyTiles(got, expected_len)
             THEN [tiles |-> got, err |-> InvalidFormat(line, "Too many tiles")]
             ELSE ParseTileTokens(Tail(toks), Append(got, tile.value),
                                  expected_len, line)

\* Map::new; its assert! is a panic
Map_new(name, width, height, tile_size, ts) ==
    IF Len(ts) # width * height
    THEN [called |-> TRUE, ok |-> FALSE, kind |-> "panic"]
    ELSE Ok([name |-> name, width |-> width, height |-> height, tiles |-> ts,
             x |-> 0, y |-> 0, tile_size |-> tile_size])

\* a variant of get_tile: the grid indexed column by column
get_tile_by_column(m, x, y) == m.tiles[x * m.height + y + 1]

\* Map::get_tile: sequences are 1-based, Vec is 0-based
get_tile(m, x, y) == m.tiles[y * m.width + x + 1]

\* HashMap::insert
Insert(f, key, value) ==
    [k \in DOMAIN f \cup {key} |-> IF k = key THEN value ELSE f[k]]

NameKey == <<"n", "a", "m", "e">>
SizeKey == <<"s", "i", "z", "e">>
Separator == <<"-", "-", "-">>

\* the tile size main gives Map::parse
DefaultTileSize == 64

Finish(r) == pc' = "done" /\ result' = r

\* load_fields: the stream ends before the separator
LoadFieldsEof ==
    /\ pc = "load_fields"
    /\ cursor = Len(file)
    /\ Finish(InvalidFormat(line_number, "Map separator not found"))
    /\ UNCHANGED <<file, cursor, line_number, fields, dims, tiles>>
    /\ UNCHANGED notParseVars

\* load_fields: the separator line
LoadFieldsSeparator ==
    /\ pc = "load_fields"
    /\ cursor < Len(file)
    /\ file[cursor + 1] = Separator
    /\ cursor' = cursor + 1
    /\ line_number' = line_number + 1
    /\ pc' = "get_fields"
    /\ UNCHANGED <<file, fields, dims, tiles, result>>
    /\ UNCHANGED notParseVars

\* load_fields: a header line
LoadFieldsLine ==
    /\ pc = "load_fields"
    /\ cursor < Len(file)
    /\ file[cursor + 1] # Separator
    /\ cursor' = cursor + 1
    /\ line_number' = line_number + 1
    /\ LET field == parse_field(file[cursor + 1], line_number + 1)
       IN  IF field.ok
           THEN /\ fields' = Insert(fields, field.value[1], field.value[2])
                /\ UNCHANGED <<pc, result>>
           ELSE /\ Finish(field)
                /\ UNCHANGED fields
    /\ UNCHANGED <<file, dims, tiles>>
    /\ UNCHANGED notParseVars

\* Map::parse between load_fields and parse_tiles
GetFields ==
    /\ pc = "get_fields"
    /\ IF NameKey \notin DOMAIN fields
       THEN Finish(InvalidFormat(line_number, "Missing name field")) /\ UNCHANGED dims
       ELSE IF SizeKey \notin DOMAIN fields
       THEN Finish(InvalidFormat(line_number, "Missing size field")) /\ UNCHANGED dims
       ELSE LET size == parse_size(fields[SizeKey], line_number)
            IN  IF size.ok
                THEN dims' = size.value /\ pc' = "parse_tiles" /\ UNCHANGED result
                ELSE Finish(size) /\ UNCHANGED dims
    /\ UNCHANGED <<file, cursor, line_number, fields, tiles>>
    /\ UNCHANGED notParseVars

\* parse_tiles: one line of the body
ParseTilesLine ==
    /\ pc = "parse_tiles"
    /\ cursor < Len(file)
    /\ cursor' = cursor + 1
    /\ line_number' = line_number + 1
    /\ LET r == ParseTileTokens(SplitWhitespace(file[cursor + 1]), tiles,
                                dims[1] * dims[2], line_number + 1)
       IN  /\ tiles' = r.tiles
           /\ IF r.err.called THEN Finish(r.err) ELSE UNCHANGED <<pc, result>>
    /\ UNCHANGED <<file, fields, dims>>
    /\ UNCHANGED notParseVars

\* parse_tiles: the end of the stream, and Map::new
ParseTilesEof ==
    /\ pc = "parse_tiles"
    /\ cursor = Len(file)
    /\ IF Len(tiles) < dims[1] * dims[2]
       THEN Finish(InvalidFormat(line_number,
                <<"Not enough tiles, expected", dims[1] * dims[2],
                  "but got", Len(tiles)>>))
       ELSE Finish(Map_new(fields[NameKey], dims[1], dims[2], DefaultTileSize, tiles))
    /\ UNCHANGED <<file, cursor, line_number, fields, dims, tiles>>
    /\ UNCHANGED notParseVars

-----------------------------------------------------------------------------
(* Map::to_map_coordinates *)

(* World coordinates are f32 in the code and integers here: one unit of the *)
(* model is one world unit, and a tile is tile_size of them, so a position  *)
(* has a fractional part within its tile.                                   *)

\* `(v / tile_size) as usize`: the quotient truncated toward zero by the
\* cast, which saturates at 0 for a negative value
AsUsizeDiv(v, tile_size) == IF v < 0 THEN 0 ELSE v \div tile_size

None == [some |-> FALSE]
Some(value) == [some |-> TRUE, value |-> value]

to_map_coordinates(m, x, y) ==
    LET cx == AsUsizeDiv(x - m.x, m.tile_size)
        cy == AsUsizeDiv(y - m.y, m.tile_size)
    IN  IF cx >= m.width \/ cy >= m.height THEN None
        ELSE Some([x |-> cx, y |-> cy])

-----------------------------------------------------------------------------
(* Player::rotate, move_forward, move_backward *)

(* Angles are f32 radians in the code and integers here, in units of a      *)
(* quarter of PI: the eight directions of the compass.                      *)
PI == 4
TAU == 2 * PI

PLAYER_RADIUS == 10

Abs(n) == IF n < 0 THEN -n ELSE n

\* n / d rounded to the nearest integer, halves away from zero
RoundDiv(n, d) ==
    IF n < 0 THEN -((2 * (-n) + d) \div (2 * d)) ELSE (2 * n + d) \div (2 * d)

\* f32::cos and f32::sin of an angle, in thousandths
Cos1000(a) ==
    CASE Abs(a) = 0 -> 1000 [] Abs(a) = 1 -> 707 [] Abs(a) = 2 -> 0
      [] Abs(a) = 3 -> -707 [] Abs(a) = 4 -> -1000

Sin1000(a) ==
    CASE a = 0 -> 0 [] a = 1 -> 707 [] a = 2 -> 1000 [] a = 3 -> 707 [] a = 4 -> 0
      [] a = -1 -> -707 [] a = -2 -> -1000 [] a = -3 -> -707 [] a = -4 -> 0

\* `angle.cos() * distance` and `angle.sin() * distance`, to the world unit
CosTimes(a, distance) == RoundDiv(Cos1000(a) * distance, 1000)
SinTimes(a, distance) == RoundDiv(Sin1000(a) * distance, 1000)

rotate(a, delta) ==
    LET a1 == a + delta
        a2 == IF a1 > PI THEN a1 - TAU ELSE a1
    IN  IF a2 < -PI THEN a2 + TAU ELSE a2

\* the probe point of move_collision_check
ProbeX(a, x, rev) ==
    x + (IF rev # (Abs(a) < PI \div 2) THEN PLAYER_RADIUS ELSE -PLAYER_RADIUS)

ProbeY(a, y, rev) ==
    y + (IF rev # (a > 0) THEN PLAYER_RADIUS ELSE -PLAYER_RADIUS)

\* a variant of move_collision_check: a wall on either axis blocks both
move_collision_check_no_slide(m, p, a, x, y, rev) ==
    LET map_pos == to_map_coordinates(m, p.x, p.y)
        new_map_pos == to_map_coordinates(m, ProbeX(a, x, rev), ProbeY(a, y, rev))
    IN  IF ~map_pos.some \/ ~new_map_pos.some THEN p
        ELSE IF /\ get_tile(m, new_map_pos.value.x, map_pos.value.y) # 1
                /\ get_tile(m, map_pos.value.x, new_map_pos.value.y) # 1
             THEN [x |-> x, y |-> y]
             ELSE p

\* move_collision_check: the position it leaves in self.pos
move_collision_check(m, p, a, x, y, rev) ==
    LET map_pos == to_map_coordinates(m, p.x, p.y)
        new_map_pos == to_map_coordinates(m, ProbeX(a, x, rev), ProbeY(a, y, rev))
    IN  IF ~map_pos.some \/ ~new_map_pos.some THEN p
        ELSE [x |-> IF get_tile(m, new_map_pos.value.x, map_pos.value.y) # 1
                    THEN x ELSE p.x,
              y |-> IF get_tile(m, map_pos.value.x, new_map_pos.value.y) # 1
                    THEN y ELSE p.y]

\* the locals of a move, kept for the claims: where it started, the
\* candidate position and the probe point
MoveRecord(op, p, a, x, y, rev) ==
    [op |-> op, from |-> p, x |-> x, y |-> y,
     x_rad |-> ProbeX(a, x, rev), y_rad |-> ProbeY(a, y, rev)]

\* the model follows a position down to Margin below the map's origin
Followed(p) == p.x >= map.x - Margin /\ p.y >= map.y - Margin

Rotate(delta) ==
    /\ angle' = rotate(angle, delta)
    /\ last' = [op |-> "rotate"]
    /\ UNCHANGED <<map, pos, turn>>
    /\ UNCHANGED notPlayerVars

MoveForward(distance) ==
    LET x == pos.x + CosTimes(angle, distance)
        y == pos.y + SinTimes(angle, distance)
    IN  /\ pos' = move_collision_check(map, pos, angle, x, y, FALSE)
        /\ Followed(pos')
        /\ last' = MoveRecord("move_forward", pos, angle, x, y, FALSE)
        /\ UNCHANGED <<map, angle, turn>>
        /\ UNCHANGED notPlayerVars

MoveBackward(distance) ==
    LET x == pos.x - CosTimes(angle, distance)
        y == pos.y - SinTimes(angle, distance)
    IN  /\ pos' = move_collision_check(map, pos, angle, x, y, TRUE)
        /\ Followed(pos')
        /\ last' = MoveRecord("move_backward", pos, angle, x, y, TRUE)
        /\ UNCHANGED <<map, angle, turn>>
        /\ UNCHANGED notPlayerVars

\* a grid as the rows of the map file, top row first
MapOf(rows) ==
    [name |-> <<"m">>, width |-> Len(rows[1]), height |-> Len(rows),
     tiles |-> Flatten(rows), x |-> 0, y |-> 0, tile_size |-> TileSize]

Maps ==
    { MapOf(<< <<1, 1, 1, 1>>,
               <<1, 0, 0, 1>>,
               <<1, 0, 1, 1>>,
               <<1, 1, 1, 1>> >>),
      MapOf(<< <<0, 0, 0>>,
               <<0, 1, 2>>,
               <<0, 0, 0>> >>) }

\* the centre of cell (cx, cy)
CellCentre(m, cx, cy) ==
    [x |-> m.x + cx * m.tile_size + m.tile_size \div 2,
     y |-> m.y + cy * m.tile_size + m.tile_size \div 2]

InitMove ==
    /\ map \in Maps
    /\ \E cx \in 0..(map.width - 1), cy \in 0..(map.height - 1) :
          /\ get_tile(map, cx, cy) # 1
          /\ pos = CellCentre(map, cx, cy)
    /\ angle = 0
    /\ last = [op |-> "new"]
    /\ turn = [start |-> 0, total |-> 0, signs |-> {}]
    /\ IdlePure
    /\ IdleParse
    /\ IdleRay

NextMove ==
    \/ \E delta \in {-1, 1} : Rotate(delta)
    \/ MoveForward(MoveDistance)
    \/ MoveBackward(MoveDistance)

SpecMove == InitMove /\ [][NextMove]_vars

-----------------------------------------------------------------------------
(* Player::raycast *)

(* The direction (cos, sin) of the ray is kept as an integer vector of the  *)
(* same direction. In f32, cos(0) = 1 and sin(0) = 0 exactly, while at the  *)
(* other three cardinal angles the component that is 0 in the reals is a    *)
(* value of magnitude below 1e-7 with the sign given here; the model keeps  *)
(* it as 1 against Steep.                                                   *)
Direction(a) ==
    CASE a = 0 -> [x |-> Steep, y |-> 0]
      [] a = 1 \/ a = -7 -> [x |-> 1, y |-> 1]
      [] a = 2 \/ a = -6 -> [x |-> -1, y |-> Steep]
      [] a = 3 \/ a = -5 -> [x |-> -1, y |-> 1]
      [] a = 4 -> [x |-> -Steep, y |-> -1]
      [] a = -4 -> [x |-> -Steep, y |-> 1]
      [] a = -3 \/ a = 5 -> [x |-> -1, y |-> -1]
      [] a = -2 \/ a = 6 -> [x |-> 1, y |-> -Steep]
      [] a = -1 \/ a = 7 -> [x |-> 1, y |-> -1]

\* Map::in_map: true iff to_map_coordinates returns Some
in_map(m, p) == to_map_coordinates(m, p.x, p.y).some

\* `v as i32` of v = n / tile_size: truncation toward zero
AsI32Div(n, tile_size) == IF n < 0 THEN -((-n) \div tile_size) ELSE n \div tile_size

\* a variant of RayLenXLess: the comparison made with <=
RayLenXLessOrEqual(r) ==
    r.ray_len.x * Abs(r.direction.y) <= r.ray_len.y * Abs(r.direction.x)

(* Lengths along the ray.  A length l of the code, in tiles, is kept as the *)
(* world units n travelled along the axis that is stepped:                  *)
(* l = (n / tile_size) * step_size of that axis, and step_size.x /          *)
(* step_size.y = |direction.y| / |direction.x|, so that                     *)
(* ray_len.x < ray_len.y iff n.x * |direction.y| < n.y * |direction.x|.     *)
RayLenXLess(r) == r.ray_len.x * Abs(r.direction.y) < r.ray_len.y * Abs(r.direction.x)

\* the first crossing on each axis, from the position within the cell
FirstRayLen(p, d, map_pos, tile_size) ==
    [x |-> IF d.x < 0 THEN p.x - map_pos.x * tile_size
           ELSE (map_pos.x + 1) * tile_size - p.x,
     y |-> IF d.y < 0 THEN p.y - map_pos.y * tile_size
           ELSE (map_pos.y + 1) * tile_size - p.y]

NoHit == [hit |-> FALSE]

\* RayCastResult::Hit(distance * tile_size, map_pos, side); the distance is
\* in world units along the stepped axis, to be multiplied by that axis's
\* step_size (1 for a cardinal direction)
Hit(distance, cell, side) ==
    [hit |-> TRUE, distance |-> distance, cell |-> cell, side |-> side]

\* a variant of AfterStep: the wall code is not tested
AfterStepNoWall(r) ==
    IF \/ r.map_pos.x < 0 \/ r.map_pos.x >= map.width
       \/ r.map_pos.y < 0 \/ r.map_pos.y >= map.height
    THEN [r EXCEPT !.out = TRUE]
    ELSE r

\* the test at the end of an iteration of the step loop
AfterStep(r) ==
    IF \/ r.map_pos.x < 0 \/ r.map_pos.x >= map.width
       \/ r.map_pos.y < 0 \/ r.map_pos.y >= map.height
    THEN [r EXCEPT !.out = TRUE]
    ELSE IF get_tile(map, r.map_pos.x, r.map_pos.y) = 1
    THEN [r EXCEPT !.hit = TRUE]
    ELSE r

\* raycast from outside the map
RaycastOutside(offset) ==
    /\ ray.pc = "idle"
    /\ ~in_map(map, pos)
    /\ ray' = [pc |-> "done", offset |-> offset, result |-> NoHit]
    /\ UNCHANGED playerVars
    /\ UNCHANGED <<pureVars, parseVars>>

\* raycast up to the step loop
RaycastStart(offset) ==
    /\ ray.pc = "idle"
    /\ in_map(map, pos)
    /\ LET direction == Direction(angle + offset)
           map_pos == [x |-> AsI32Div(pos.x, map.tile_size),
                       y |-> AsI32Div(pos.y, map.tile_size)]
       IN  ray' = [pc |-> "loop", offset |-> offset, direction |-> direction,
                   map_pos |-> map_pos,
                   ray_len |-> FirstRayLen(pos, direction, map_pos, map.tile_size),
                   step |-> [x |-> IF direction.x < 0 THEN -1 ELSE 1,
                             y |-> IF direction.y < 0 THEN -1 ELSE 1],
                   hit |-> FALSE, side |-> FALSE, out |-> FALSE, distance |-> 0,
                   steps |-> 0, result |-> NotCalled]
    /\ UNCHANGED playerVars
    /\ UNCHANGED <<pureVars, parseVars>>

\* the body of the branch that advances X
AdvanceX(r) ==
    [r EXCEPT !.map_pos.x = @ + r.step.x,
              !.ray_len.x = @ + map.tile_size,
              !.side = FALSE,
              !.distance = r.ray_len.x + map.tile_size,
              !.steps = @ + 1]

\* the body of the branch that advances Y
AdvanceY(r) ==
    [r EXCEPT !.map_pos.y = @ + r.step.y,
              !.ray_len.y = @ + map.tile_size,
              !.side = TRUE,
              !.distance = r.ray_len.y + map.tile_size,
              !.steps = @ + 1]

\* an iteration of the step loop that advances X
StepX ==
    /\ ray.pc = "loop"
    /\ ~ray.hit /\ ~ray.out
    /\ RayLenXLess(ray)
    /\ ray' = AfterStep(AdvanceX(ray))
    /\ UNCHANGED playerVars
    /\ UNCHANGED <<pureVars, parseVars>>

\* an iteration of the step loop that advances Y
StepY ==
    /\ ray.pc = "loop"
    /\ ~ray.hit /\ ~ray.out
    /\ ~RayLenXLess(ray)
    /\ ray' = AfterStep(AdvanceY(ray))
    /\ UNCHANGED playerVars
    /\ UNCHANGED <<pureVars, parseVars>>

\* the end of the loop and the result
RaycastReturn ==
    /\ ray.pc = "loop"
    /\ ray.hit \/ ray.out
    /\ ray' = [ray EXCEPT !.pc = "done",
                          !.result = IF ray.hit
                                     THEN Hit(ray.distance, ray.map_pos, ray.side)
                                     ELSE NoHit]
    /\ UNCHANGED playerVars
    /\ UNCHANGED <<pureVars, parseVars>>

\* a wall ring one tile thick around an open interior
RingMap(w, h) ==
    MapOf([y \in 1..h |-> [x \in 1..w |->
              IF x = 1 \/ x = w \/ y = 1 \/ y = h THEN 1 ELSE 0]])

\* a map without any wall
OpenMap(w, h) == MapOf([y \in 1..h |-> [x \in 1..w |-> 0]])

RayMaps ==
    {RingMap(w, h) : w, h \in 3..MaxRing}
        \cup {OpenMap(w, h) : w, h \in 1..MaxOpen}
        \cup Maps

InitRay ==
    /\ map \in RayMaps
    /\ \E i \in -1..(2 * map.width), j \in -1..(2 * map.height) :
          pos = [x |-> map.x + i * (map.tile_size \div 2),
                 y |-> map.y + j * (map.tile_size \div 2)]
    /\ angle \in (-PI)..PI
    /\ last = [op |-> "new"]
    /\ turn = [start |-> 0, total |-> 0, signs |-> {}]
    /\ IdleRay
    /\ IdlePure
    /\ IdleParse

NextRay ==
    \/ \E offset \in {-1, 0, 1} : RaycastOutside(offset)
    \/ \E offset \in {-1, 0, 1} : RaycastStart(offset)
    \/ StepX
    \/ StepY
    \/ RaycastReturn

SpecRay == InitRay /\ [][NextRay]_vars

\* raycast is sequential code: once called it runs each iteration of the loop
\* and returns
SpecRayLive == SpecRay /\ WF_vars(StepX \/ StepY \/ RaycastReturn)

-----------------------------------------------------------------------------
(* Specification of Player::rotate alone *)

Sign(n) == IF n > 0 THEN 1 ELSE IF n < 0 THEN -1 ELSE 0

InitRotate ==
    /\ angle \in (1 - PI)..PI
    /\ turn = [start |-> angle, total |-> 0, signs |-> {}]
    /\ map = NoMap
    /\ pos = [x |-> 0, y |-> 0]
    /\ last = [op |-> "new"]
    /\ IdlePure
    /\ IdleParse
    /\ IdleRay

\* rotate(delta), |delta| smaller than a full turn; the model follows the
\* sum of the deltas up to MaxTurns full turns either way
Turn(delta) ==
    /\ Abs(turn.total + delta) <= MaxTurns * TAU
    /\ angle' = rotate(angle, delta)
    /\ turn' = [turn EXCEPT !.total = @ + delta, !.signs = @ \cup {Sign(delta)}]
    /\ last' = [op |-> "rotate"]
    /\ UNCHANGED <<map, pos>>
    /\ UNCHANGED notPlayerVars

NextRotate == \E delta \in (1 - TAU)..(TAU - 1) : Turn(delta)

SpecRotate == InitRotate /\ [][NextRotate]_vars

-----------------------------------------------------------------------------
(* Specification of Map::to_map_coordinates alone *)

\* Map::set_position
set_position(m, x, y) == [m EXCEPT !.x = @ + x, !.y = @ + y]

InitCoord ==
    /\ \E m \in Maps, ox \in {0, -3}, oy \in {0, 5} : map = set_position(m, ox, oy)
    /\ arg \in [x : (map.x - Margin)..(map.x + map.width * map.tile_size + Margin),
                y : (map.y - Margin)..(map.y + map.height * map.tile_size + Margin)]
    /\ ret = NotCalled
    /\ pos = [x |-> 0, y |-> 0]
    /\ angle = 0
    /\ last = [op |-> "new"]
    /\ turn = [start |-> 0, total |-> 0, signs |-> {}]
    /\ IdleParse
    /\ IdleRay

CallToMapCoordinates ==
    /\ ret = NotCalled
    /\ ret' = to_map_coordinates(map, arg.x, arg.y)
    /\ UNCHANGED arg
    /\ UNCHANGED notPureVars

NextCoord == CallToMapCoordinates

SpecCoord == InitCoord /\ [][NextCoord]_vars

-----------------------------------------------------------------------------
(* Specifications of the pure parser functions *)

SizeAlphabet == {"1", "2", "x", "a"}

InitSize ==
    /\ arg \in [size : Strings(SizeAlphabet, MaxSizeLen), line : {1, 2}]
    /\ ret = NotCalled
    /\ IdleParse
    /\ IdlePlayer
    /\ IdleRay

CallParseSize ==
    /\ ret = NotCalled
    /\ ret' = parse_size(arg.size, arg.line)
    /\ UNCHANGED arg
    /\ UNCHANGED notPureVars

NextSize == CallParseSize

SpecSize == InitSize /\ [][NextSize]_vars

FieldAlphabet == {"a", "=", " "}

InitField ==
    /\ arg \in [field : Strings(FieldAlphabet, MaxFieldLen), line : {1, 2}]
    /\ ret = NotCalled
    /\ IdleParse
    /\ IdlePlayer
    /\ IdleRay

CallParseField ==
    /\ ret = NotCalled
    /\ ret' = parse_field(arg.field, arg.line)
    /\ UNCHANGED arg
    /\ UNCHANGED notPureVars

NextField == CallParseField

SpecField == InitField /\ [][NextField]_vars

-----------------------------------------------------------------------------
(* Specification of Map::parse *)

SeqsUpTo(S, n) == UNION {[1..k -> S] : k \in 0..n}

NameLine == NameKey \o <<"=", "m">>
NameLineSpaced == NameKey \o <<" ", "=", " ", "m">>
SizeLine(value) == SizeKey \o <<"=">> \o value
SizeLineSpaced(value) == <<" ">> \o SizeKey \o <<" ", "=", " ">> \o value \o <<" ">>

\* the header blocks the model reads, the separator included when present
Headers ==
    { <<NameLine, SizeLine(<<"2", "x", "2">>), Separator>>,
      <<SizeLineSpaced(<<"1", "x", "2">>), NameLineSpaced, Separator>>,
      <<NameLine, SizeLine(<<"2", "x", "1">>), SizeLine(<<"1", "x", "1">>), Separator>>,
      <<NameLine, <<"a", "=", "b", "=">>, SizeLine(<<"2", "x", "2">>), Separator>>,
      <<SizeLine(<<"0", "x", "2">>), NameLine, Separator>>,
      <<NameLine, Separator>>,
      <<SizeLine(<<"2", "x", "2">>), Separator>>,
      <<NameLine, SizeLine(<<"2", "x">>), Separator>>,
      <<NameLine, SizeLine(<<"1", "x", "2", "x", "3">>), Separator>>,
      <<NameLine, <<"=">>, Separator>>,
      <<NameLine, SizeLine(<<"2", "x", "2">>)>> }

\* the body lines the model reads
BodyLines ==
    { <<>>,
      <<"0">>,
      <<"1", " ", "0">>,
      <<" ", "7", "\t", " ", "1">>,
      <<"2", "5", "5">>,
      <<"2", "5", "6">>,
      <<"+", "1", " ", "x">> }

InitParse ==
    /\ file \in {h \o b : h \in Headers, b \in SeqsUpTo(BodyLines, MaxBodyLines)}
    /\ cursor = 0
    /\ line_number = 0
    /\ fields = <<>>
    /\ dims = <<0, 0>>
    /\ tiles = <<>>
    /\ pc = "load_fields"
    /\ result = NotCalled
    /\ IdlePure
    /\ IdlePlayer
    /\ IdleRay

NextParse ==
    \/ LoadFieldsEof
    \/ LoadFieldsSeparator
    \/ LoadFieldsLine
    \/ GetFields
    \/ ParseTilesLine
    \/ ParseTilesEof

SpecParse == InitParse /\ [][NextParse]_vars

-----------------------------------------------------------------------------
(* C1 *)

\* s is, as a whole, two non-empty digit groups around a single 'x'
IsExactSize(s) ==
    \E k \in 2..(Len(s) - 1) :
        /\ s[k] = "x"
        /\ \A i \in 1..Len(s) : i # k => IsDigit(s[i])

ExactSizeValue(s) ==
    LET k == CHOOSE i \in 1..Len(s) : s[i] = "x"
    IN  <<DecimalValue(SubSeq(s, 1, k - 1)), DecimalValue(SubSeq(s, k + 1, Len(s)))>>

\* C1: parse_size(s) succeeds only when the whole of s is two digit groups
\* around a single 'x', then returning (width, height); for any other s
\* (an extra 'x' group, trailing characters, a missing digit group) it
\* returns InvalidFormat.
C1_ExactSizeOnly ==
    ret.called =>
        IF IsExactSize(arg.size)
        THEN ret.ok /\ ret.value = ExactSizeValue(arg.size)
        ELSE ~ret.ok /\ ret.kind = "InvalidFormat"

-----------------------------------------------------------------------------
(* C2 *)

FieldPartsEmptyAfterTrim(key, value) == Len(Trim(key)) = 0 \/ Len(Trim(value)) = 0

\* the line has no '=', or has fewer than 3 characters, or its key or value
\* is empty after trimming
FieldMalformed(s) ==
    \/ Len(s) < 3
    \/ \A i \in 1..Len(s) : s[i] # "="
    \/ \E i \in 1..Len(s) :
          /\ s[i] = "="
          /\ \A j \in 1..(i - 1) : s[j] # "="
          /\ FieldPartsEmptyAfterTrim(SubSeq(s, 1, i - 1), SubSeq(s, i + 1, Len(s)))

\* C2: parse_field returns (key, value) trimmed of surrounding whitespace,
\* and returns InvalidFormat for every line with fewer than 3 characters,
\* without '=', or whose key or value is empty after trimming; it never
\* returns an empty key or an empty value.
C2_FieldTrimmedNonEmpty ==
    ret.called =>
        /\ FieldMalformed(arg.field) => ~ret.ok /\ ret.kind = "InvalidFormat"
        /\ ret.ok =>
              /\ ret.value[1] # <<>> /\ ret.value[2] # <<>>
              /\ \A p \in 1..2 : Trim(ret.value[p]) = ret.value[p]

-----------------------------------------------------------------------------
(* C7 and C8: what a map file holds, read off the text itself *)

\* the index in the file of the separator line (0 if there is none)
SeparatorAt(f) ==
    LET at == {i \in 1..Len(f) : f[i] = Separator}
    IN  IF at = {} THEN 0 ELSE CHOOSE i \in at : \A j \in at : i <= j

\* the tokens of the body in reading order, each with the 1-based number of
\* the line of the file that holds it
BodyTokens(f) ==
    LET sep == SeparatorAt(f)
    IN  Flatten([k \in 1..(Len(f) - sep) |->
            LET toks == SplitWhitespace(f[sep + k])
            IN  [i \in 1..Len(toks) |-> [text |-> toks[i], line |-> sep + k]]])

\* parse_tiles was entered and has returned
TilesParsed == pc = "done" /\ SeparatorAt(file) > 0 /\ cursor > SeparatorAt(file)

\* C7 as stated: when the body holds more than width*height tokens, parse
\* fails with InvalidFormat "too many tiles" at the line of the first token
\* past width*height, as soon as that token is read.
C7_TooManyTilesAlways ==
    LET toks == BodyTokens(file)
        expected_len == dims[1] * dims[2]
    IN  TilesParsed /\ Len(toks) > expected_len
        => /\ ~result.ok
           /\ result.kind = "InvalidFormat"
           /\ result.message = "Too many tiles"
           /\ result.line = toks[expected_len + 1].line
           /\ cursor = toks[expected_len + 1].line

\* the first n tokens of the body all parse as u8
FirstTokensParse(f, n) ==
    \A i \in 1..n : i <= Len(BodyTokens(f)) => ParseU8(BodyTokens(f)[i].text).ok

\* C7, amended: when the body holds more than width*height tokens and the
\* first width*height+1 of them all parse as u8, parse fails with
\* InvalidFormat "Too many tiles" at the line of the first token past
\* width*height, having read no line after that one.
C7_TooManyTilesAtOverflowLine ==
    LET toks == BodyTokens(file)
        expected_len == dims[1] * dims[2]
    IN  TilesParsed /\ Len(toks) > expected_len
                    /\ FirstTokensParse(file, expected_len + 1)
        => /\ ~result.ok
           /\ result.kind = "InvalidFormat"
           /\ result.message = "Too many tiles"
           /\ result.line = toks[expected_len + 1].line
           /\ cursor = toks[expected_len + 1].line

\* the overflow token is met on a line that is not the last: lines are left
\* unread when the error is returned
C7_Witness ==
    /\ TilesParsed
    /\ ~result.ok
    /\ result.message = "Too many tiles"
    /\ dims[1] * dims[2] > 0
    /\ result.line > SeparatorAt(file) + 1
    /\ cursor < Len(file)

-----------------------------------------------------------------------------
(* C8 *)

\* the header lines of the file, the separator excluded
HeaderLines(f) == SubSeq(f, 1, SeparatorAt(f) - 1)

\* key and value of a header line, split at its first '=' and trimmed
FieldKey(s) ==
    LET at == CHOOSE i \in 1..Len(s) : s[i] = "=" /\ \A j \in 1..(i - 1) : s[j] # "="
    IN  Trim(SubSeq(s, 1, at - 1))

FieldValue(s) ==
    LET at == CHOOSE i \in 1..Len(s) : s[i] = "=" /\ \A j \in 1..(i - 1) : s[j] # "="
    IN  Trim(SubSeq(s, at + 1, Len(s)))

\* the value of the last header line with the given key
LastValue(f, key) ==
    LET h == HeaderLines(f)
        at == {i \in 1..Len(h) : FieldKey(h[i]) = key}
    IN  FieldValue(h[CHOOSE i \in at : \A j \in at : j <= i])

\* a valid header: key = value lines, among them a name and a size of the
\* form <digits>x<digits>, then the separator
ValidHeader(f) ==
    /\ SeparatorAt(f) > 0
    /\ \A i \in 1..Len(HeaderLines(f)) : ~FieldMalformed(HeaderLines(f)[i])
    /\ \E i \in 1..Len(HeaderLines(f)) : FieldKey(HeaderLines(f)[i]) = NameKey
    /\ \E i \in 1..Len(HeaderLines(f)) : FieldKey(HeaderLines(f)[i]) = SizeKey
    /\ IsExactSize(LastValue(f, SizeKey))

\* a token that is the decimal notation of an unsigned 8-bit integer
IsU8Token(t) ==
    /\ t # <<>>
    /\ \A i \in 1..Len(t) : IsDigit(t[i])
    /\ DecimalValue(t) <= 255

\* a valid header followed by exactly W*H valid u8 tokens
ValidSource(f) ==
    /\ ValidHeader(f)
    /\ LET size == ExactSizeValue(LastValue(f, SizeKey))
       IN  Len(BodyTokens(f)) = size[1] * size[2]
    /\ \A i \in 1..Len(BodyTokens(f)) : IsU8Token(BodyTokens(f)[i].text)

\* C8: parsing a valid header (name, size = WxH, then ---) followed by
\* exactly W*H valid u8 tokens succeeds, and the tile at (x, y) of the Map
\* is the token at row-major position y*W + x, for 0 <= x < W, 0 <= y < H.
C8_RoundTrip ==
    pc = "done" /\ ValidSource(file) =>
        LET size == ExactSizeValue(LastValue(file, SizeKey))
            toks == BodyTokens(file)
        IN  /\ result.ok
            /\ result.value.width = size[1]
            /\ result.value.height = size[2]
            /\ \A x \in 0..(size[1] - 1), y \in 0..(size[2] - 1) :
                  get_tile(result.value, x, y)
                      = DecimalValue(toks[y * size[1] + x + 1].text)

\* a 2x2 map was parsed whose tiles at (1, 0) and (0, 1) differ
C8_Witness ==
    /\ pc = "done"
    /\ ValidSource(file)
    /\ result.ok
    /\ result.value.width = 2
    /\ result.value.height = 2
    /\ get_tile(result.value, 1, 0) # get_tile(result.value, 0, 1)

-----------------------------------------------------------------------------
(* C3 *)

\* the position is inside the map, in a cell that is not a wall
InOpenCell(m, p) ==
    /\ p.x >= m.x /\ p.x < m.x + m.width * m.tile_size
    /\ p.y >= m.y /\ p.y < m.y + m.height * m.tile_size
    /\ get_tile(m, (p.x - m.x) \div m.tile_size, (p.y - m.y) \div m.tile_size) # 1

\* C3: after any sequence of rotate, move_forward and move_backward calls on
\* a player that starts inside the map in a non-wall cell, the position is
\* still inside the map and in a non-wall cell.
C3_StaysInOpenCell == InOpenCell(map, pos)

-----------------------------------------------------------------------------
(* C6 *)

IsMove == last.op \in {"move_forward", "move_backward"}

\* C6: in a move where both the current position and the probe point convert
\* to grid cells, X becomes the candidate iff the tile at (probe_cell.x,
\* current_cell.y) is not a wall and is otherwise unchanged, and Y becomes
\* the candidate iff the tile at (current_cell.x, probe_cell.y) is not a wall
\* and is otherwise unchanged.
C6_AxesResolvedSeparately ==
    IsMove =>
        LET cur == to_map_coordinates(map, last.from.x, last.from.y)
            probe == to_map_coordinates(map, last.x_rad, last.y_rad)
        IN  cur.some /\ probe.some =>
              /\ pos.x = IF get_tile(map, probe.value.x, cur.value.y) # 1
                         THEN last.x ELSE last.from.x
              /\ pos.y = IF get_tile(map, cur.value.x, probe.value.y) # 1
                         THEN last.y ELSE last.from.y

\* a move blocked on X only: Y took the candidate, X did not
C6_Witness ==
    /\ IsMove
    /\ last.x # last.from.x /\ last.y # last.from.y
    /\ pos.x = last.from.x
    /\ pos.y = last.y

\* a move blocked on both axes changed neither
C6_WitnessBlocked ==
    /\ IsMove
    /\ last.x # last.from.x /\ last.y # last.from.y
    /\ pos = last.from
    /\ to_map_coordinates(map, last.x_rad, last.y_rad).some

-----------------------------------------------------------------------------
(* C4 *)

\* the world coordinate lies on the map: its cell index, before any
\* truncation, is at least 0 and below width on X and height on Y
OnMap(m, x, y) ==
    /\ x - m.x >= 0 /\ x - m.x < m.width * m.tile_size
    /\ y - m.y >= 0 /\ y - m.y < m.height * m.tile_size

\* C4: to_map_coordinates returns None for every world coordinate whose
\* cell index is negative on either axis, or >= width on X, or >= height on
\* Y; it returns Some((cx, cy)) only when 0 <= cx < width and
\* 0 <= cy < height for the un-truncated coordinate.
C4_NoneOffMap ==
    ret # NotCalled =>
        IF OnMap(map, arg.x, arg.y)
        THEN ret = Some([x |-> (arg.x - map.x) \div map.tile_size,
                         y |-> (arg.y - map.y) \div map.tile_size])
        ELSE ret = None

-----------------------------------------------------------------------------
(* C9 and C10 *)

\* C9: the angle stays in (-PI, PI], PI included and -PI excluded, after any
\* sequence of rotate(delta) calls with |delta| smaller than a full turn,
\* starting from an angle in (-PI, PI].
C9_AngleHalfOpen == angle > -PI /\ angle <= PI

\* C10: from every starting angle in (-PI, PI], after rotate calls whose
\* deltas all have the same sign, are each smaller than a full turn and sum
\* to exactly +2 PI or -2 PI, the angle equals the starting angle.
C10_FullTurnReturns ==
    /\ Abs(turn.total) = TAU
    /\ turn.signs \in {{1}, {-1}}
    => angle = turn.start

-----------------------------------------------------------------------------
(* C5 *)

IsRing(m) == m.width >= 3 /\ m.height >= 3 /\ m = RingMap(m.width, m.height)

\* the player stands at the centre of the interior of the ring
AtCentre(m, p) ==
    /\ 2 * (p.x - m.x) = m.width * m.tile_size
    /\ 2 * (p.y - m.y) = m.height * m.tile_size

\* the ray of the finished raycast ran along a cardinal direction
Cardinal == (angle + ray.offset) \in {-4, -2, 0, 2, 4}

\* half the span of the interior along the axis of the ray, in world units
HalfInteriorSpan(m, a) ==
    IF a \in {-4, 0, 4} THEN ((m.width - 2) * m.tile_size) \div 2
    ELSE ((m.height - 2) * m.tile_size) \div 2

\* C5: in a map made of a one-tile wall ring around an open interior, a
\* raycast from the centre of the interior along each of the 4 cardinal
\* directions returns Hit with a distance equal to half the interior span in
\* world units (the distance from the origin to the wall face crossed).
C5_CardinalHitAtHalfSpan ==
    ray.pc = "done" /\ IsRing(map) /\ AtCentre(map, pos) /\ Cardinal
    => /\ ray.result.hit
       /\ ray.result.distance = HalfInteriorSpan(map, angle + ray.offset)

-----------------------------------------------------------------------------
(* C11 *)

\* the accumulated length of Y is the smaller one
YShorter(r) == r.ray_len.y * Abs(r.direction.x) < r.ray_len.x * Abs(r.direction.y)

\* the accumulated length of X is the smaller one
XShorter(r) == r.ray_len.x * Abs(r.direction.y) < r.ray_len.y * Abs(r.direction.x)

\* the two accumulated lengths are exactly equal
Tied(r) == r.ray_len.x * Abs(r.direction.y) = r.ray_len.y * Abs(r.direction.x)

\* this step is one iteration of the step loop
Iteration ==
    /\ ray.pc = "loop" /\ ray'.pc = "loop"
    /\ ray'.steps = ray.steps + 1

\* the iteration moved the cell along X by its unit step and recorded side = false
AdvancedX ==
    /\ ray'.map_pos = [ray.map_pos EXCEPT !.x = @ + ray.step.x]
    /\ ray'.ray_len.y = ray.ray_len.y
    /\ ray'.side = FALSE

\* the iteration moved the cell along Y by its unit step and recorded side = true
AdvancedY ==
    /\ ray'.map_pos = [ray.map_pos EXCEPT !.y = @ + ray.step.y]
    /\ ray'.ray_len.x = ray.ray_len.x
    /\ ray'.side = TRUE

\* C11 as stated: in every iteration of the raycast step loop the axis with
\* the smaller accumulated ray length is advanced, and when the two
\* accumulated lengths are exactly equal the X axis is the one advanced (map
\* cell x changes by its unit step and side is recorded as false).
C11_TieAdvancesX ==
    [][Iteration => /\ XShorter(ray) => AdvancedX
                    /\ YShorter(ray) => AdvancedY
                    /\ Tied(ray) => AdvancedX]_vars

\* C11, amended: in every iteration of the raycast step loop the axis with
\* the smaller accumulated ray length is advanced, and when the two
\* accumulated lengths are exactly equal the Y axis is the one advanced (map
\* cell y changes by its unit step and side is recorded as true).
C11_TieAdvancesY ==
    [][Iteration => /\ XShorter(ray) => AdvancedX
                    /\ YShorter(ray) => AdvancedY
                    /\ Tied(ray) => AdvancedY]_vars

\* the last iteration was made on a tie: it advanced Y, and the length of Y
\* before it was equal to the length of X, which it left alone
C11_Witness ==
    /\ ray.pc = "loop"
    /\ ray.steps >= 1
    /\ ray.side
    /\ (ray.ray_len.y - map.tile_size) * Abs(ray.direction.x)
          = ray.ray_len.x * Abs(ray.direction.y)

-----------------------------------------------------------------------------
(* C12 *)

\* the cell lies in [0, width) x [0, height)
CellInBounds(m, c) ==
    /\ c.x >= 0 /\ c.x < m.width
    /\ c.y >= 0 /\ c.y < m.height

\* raycast was called from a position inside the map and reached the step loop
RayFromInside == OnMap(map, pos.x, pos.y) /\ ray.pc \in {"loop", "done"}

\* the last iteration read the tile of the stepped-to cell: it does so exactly
\* when it did not find the cell outside the map
MapIndexed(r) == r.steps >= 1 /\ ~r.out

\* after every iteration: out exactly when the stepped-to cell is outside the
\* map, hit exactly when it is inside and holds the wall code 1, and the map
\* was indexed only with a cell inside it
StepOutcome ==
    ray.steps >= 1 =>
        /\ ray.out <=> ~CellInBounds(map, ray.map_pos)
        /\ ray.hit <=> /\ CellInBounds(map, ray.map_pos)
                       /\ get_tile(map, ray.map_pos.x, ray.map_pos.y) = 1
        /\ MapIndexed(ray) => CellInBounds(map, ray.map_pos)

\* the result returned is the one the loop ended with
ResultOutcome ==
    ray.pc = "done" =>
        /\ ray.steps >= 1
        /\ ray.hit \/ ray.out
        /\ (ray.result = NoHit) <=> ray.out
        /\ ray.result.hit <=> ray.hit
        /\ ray.result.hit => ray.result.cell = ray.map_pos

C12_Bounded ==
    RayFromInside =>
        /\ ray.steps <= map.width + map.height
        /\ StepOutcome
        /\ ResultOutcome

\* C12: for every map and every player position inside the map, the raycast
\* step loop terminates after at most width+height steps, ending with NoHit
\* exactly when the stepped-to cell is outside [0,width)x[0,height) and with
\* Hit exactly when the stepped-to cell is in bounds and holds the wall code
\* 1; the map is never indexed with an out-of-bounds cell.
C12_LoopTerminates ==
    /\ []C12_Bounded
    /\ (RayFromInside /\ ray.pc = "loop") ~> (ray.pc = "done")

\* a raycast from inside the map that stepped over an open cell and returned
\* Hit on the wall behind it
C12_Witness ==
    /\ RayFromInside
    /\ ray.pc = "done"
    /\ ray.steps >= 2
    /\ ray.result.hit

====
